---------------------------- MODULE Spec2Model ----------------------------
(***************************************************************************)
(* A state-machine model of sklearn/decomposition/factor_analysis.py:      *)
(* the FactorAnalysis estimator, its constructor, its EM fit loop and its  *)
(* inference operations transform, get_covariance and score.               *)
(*                                                                         *)
(* Numbers.  A float is modelled as a fixed-point integer: the integer v   *)
(* stands for the real number v / One.  Products and quotients are         *)
(* rescaled by One and rounded down, as a finite-precision product is      *)
(* rounded.  The log-likelihood alone can leave the finite range (the      *)
(* code starts old_ll at -inf, and np.log(0) is -inf), so it is an         *)
(* extended number: a record [k, v] with k one of "fin", "ninf", "pinf",   *)
(* "nan", with IEEE-754 arithmetic and comparisons.                        *)
(*                                                                         *)
(* The singular value decomposition is a library call.  Its result is a    *)
(* deterministic function of its arguments whose values the model does     *)
(* not compute: the model keeps the table svd_memo of the results returned *)
(* so far, a call with arguments seen before returns the recorded result,  *)
(* a call with new arguments returns any of SvdCandidates and records it.  *)
(***************************************************************************)
EXTENDS Integers, Sequences, FiniteSets, TLC

(***************************************************************************)
(* Bounds of the model.                                                    *)
(***************************************************************************)
\* The fixed-point scale: the integer One stands for the float 1.0.
One == 4
\* The largest max_iter a configuration is given.
MaxIter == 3
\* The number of fit calls made on the estimator.
MaxFits == 2

(***************************************************************************)
(* Program constants.                                                      *)
(***************************************************************************)
\* SMALL = 1e-12, the smallest positive number of the fixed-point grid.
SMALL == 1
\* n_components=None, noise_variance_init=None.
None == -1

(***************************************************************************)
(* Fixed-point and extended arithmetic (numpy on floats).                  *)
(***************************************************************************)
Max(a, b) == IF a >= b THEN a ELSE b
Min(a, b) == IF a <= b THEN a ELSE b

\* a * b on floats.
FMul(a, b) == (a * b) \div One
\* a / b on floats, b # 0.
FDiv(a, b) == (a * One) \div b
\* np.sqrt / math.sqrt of a non-negative float.
FSqrt(a) == CHOOSE r \in 0..(a * One + 1) : r * r <= a * One /\ (r + 1) * (r + 1) > a * One

RECURSIVE ILog2(_)
ILog2(x) == IF x <= 1 THEN 0 ELSE 1 + ILog2(x \div 2)

Fin(v) == [k |-> "fin", v |-> v]
NInf == [k |-> "ninf", v |-> 0]
PInf == [k |-> "pinf", v |-> 0]
NaN == [k |-> "nan", v |-> 0]

\* np.log of a float: -inf at 0, nan below 0, monotone, 0 at 1.0.
FLog(x) ==
    IF x = 0 THEN NInf
    ELSE IF x < 0 THEN NaN
    ELSE Fin((ILog2(x) - ILog2(One)) * One)

\* log(2. * np.pi) = 1.8379...
Log2Pi == (1838 * One) \div 1000

\* a + b on IEEE floats.
EAdd(a, b) ==
    IF a.k = "nan" \/ b.k = "nan" THEN NaN
    ELSE IF a.k = "fin" /\ b.k = "fin" THEN Fin(a.v + b.v)
    ELSE IF a.k = "fin" THEN b
    ELSE IF b.k = "fin" THEN a
    ELSE IF a.k = b.k THEN a
    ELSE NaN

ENeg(a) ==
    IF a.k = "fin" THEN Fin(0 - a.v)
    ELSE IF a.k = "ninf" THEN PInf
    ELSE IF a.k = "pinf" THEN NInf
    ELSE NaN

\* a - b on IEEE floats.
ESub(a, b) == EAdd(a, ENeg(b))

\* a * (-n / 2.) on IEEE floats, n > 0.
EScaleNegHalf(a, n) ==
    IF a.k = "fin" THEN Fin((a.v * (0 - n)) \div 2)
    ELSE ENeg(a)

\* a < t on IEEE floats, t finite: false for nan.
ELt(a, t) == \/ a.k = "ninf"
             \/ a.k = "fin" /\ a.v < t

RECURSIVE SumSeq(_)
SumSeq(s) == IF Len(s) = 0 THEN 0 ELSE s[1] + SumSeq(Tail(s))

RECURSIVE ESumSeq(_)
ESumSeq(s) == IF Len(s) = 0 THEN Fin(0) ELSE EAdd(s[1], ESumSeq(Tail(s)))

\* A matrix is a sequence of rows, a row a sequence of numbers.
NRows(M) == Len(M)
NCols(M) == IF Len(M) = 0 THEN 0 ELSE Len(M[1])
Column(M, f) == [r \in 1..NRows(M) |-> M[r][f]]
\* a[:k]
Take(s, k) == SubSeq(s, 1, Min(k, Len(s)))
\* a[k:]
Drop(s, k) == SubSeq(s, Min(k, Len(s)) + 1, Len(s))
\* np.dot(a, a) of a vector.
FDotSelf(s) == SumSeq([j \in 1..Len(s) |-> FMul(s[j], s[j])])


(***************************************************************************)
(* Inputs: the configurations a caller constructs the estimator with, the  *)
(* training matrices (2 samples x 2 features, fixed-point entries) and the *)
(* results the SVD library may return.                                     *)
(***************************************************************************)
NviNone == [given |-> FALSE, v |-> <<>>]
Nvi(v) == [given |-> TRUE, v |-> v]

NComponentsSet == {None, 1, 3}
TolSet == {0, One}
NviSet == {NviNone, Nvi(<<0, One>>), Nvi(<<One, One, One>>)}
SvdMethodSet == {"lapack", "randomized", "arpack"}

\* The constructor's defaults, tol=1e-2 rounded to the fixed-point grid.
DefaultNComponents == None
DefaultTol == (1 * One) \div 100
DefaultCopy == TRUE
DefaultNvi == NviNone

\* How many of n_components, tol, copy, noise_variance_init are not the default.
NonDefaults(c) ==
    (IF c.n_components = DefaultNComponents THEN 0 ELSE 1)
    + (IF c.tol = DefaultTol THEN 0 ELSE 1)
    + (IF c.copy = DefaultCopy THEN 0 ELSE 1)
    + (IF c.noise_variance_init = DefaultNvi THEN 0 ELSE 1)

\* The configurations: every max_iter and svd_method, with at most two of the
\* other parameters changed from their defaults.
ConfigSet ==
    {c \in [n_components : NComponentsSet,
            tol : TolSet,
            copy : BOOLEAN,
            max_iter : 1..MaxIter,
            noise_variance_init : NviSet,
            svd_method : SvdMethodSet,
            random_state : {0}] : NonDefaults(c) <= 2}

\* The second feature of the first matrix is constant.
DataSet == { <<<<8, 4>>, <<0, 4>>>>, <<<<8, 0>>, <<0, 4>>>> }

\* Singular values (descending, non-negative) and right singular vectors.
SvdCandidates ==
    { [s |-> <<12, 8>>, V |-> <<<<One, 0>>, <<0, One>>>>],
      [s |-> <<8, 0>>, V |-> <<<<3, 3>>, <<0 - 3, 3>>>>],
      [s |-> <<6, 4>>, V |-> <<<<One, 0>>, <<0, One>>>>] }

(***************************************************************************)
(* State.                                                                  *)
(***************************************************************************)
VARIABLES
    \* the estimator object
    constructed,      \* __init__ has returned an object
    ctor_outcome,     \* "none", "returned" or "ValueError": the last constructor call
    cfg,              \* the parameters __init__ stored on self
    attrs,            \* the fitted attributes that exist on self
    mean_, components_, noise_variance_, loglike_, precision_,
    \* the frame of the running fit call
    fitpc,            \* "idle", "loop" (in the for loop) or "exit" (the loop is left)
    X_caller,         \* the array the caller passed to fit
    X,                \* fit's local X
    n_components, llconst, var, psi, loglike, old_ll, W,
    it,               \* iterations performed
    broke,            \* the loop was left by break
    rng,              \* draws made from random_state since it was seeded
    warned,           \* the ConvergenceWarning was emitted by the last fit
    fit_outcome,      \* "none", "running", "returned" or "ValueError"
    \* the SVD library
    svd_memo,         \* the results returned so far: pairs <<arguments, result>>
    \* the callers of the inference operations
    calls,            \* per caller: the call it makes or made, and its result
    \* history
    nfits,            \* fit calls made
    pre,              \* the estimator and the caller's array as fit was entered
    iter_log,         \* per iteration of the last fit: psi used, W, ll, the stop test
    fit_log           \* the completed fits: input and fitted model

estimator == <<constructed, ctor_outcome, cfg, attrs, mean_, components_,
               noise_variance_, loglike_, precision_>>
frame == <<fitpc, X_caller, X, n_components, llconst, var, psi, loglike,
           old_ll, W, it, broke, rng, warned, fit_outcome>>
history == <<nfits, pre, iter_log, fit_log>>
vars == <<estimator, frame, svd_memo, calls, history>>

FittedAttrs == {"mean_", "components_", "noise_variance_", "loglike_"}

\* The callers of transform, get_covariance and score, and the matrices they pass
\* (one of one row, one of two rows; 2 features).
Callers == {"a", "b"}
QuerySet == { <<<<4, 0>>>>, <<<<0, 8>>, <<4, 4>>>> }
NoResult == [ok |-> TRUE, v |-> <<>>]
\* overlapped: another caller assigned self.precision_ between this call's
\* assignment and its read.
IdleCall == [pc |-> "idle", op |-> "none", X |-> <<>>, cov |-> <<>>, res |-> NoResult,
             overlapped |-> FALSE]

Init ==
    /\ constructed = FALSE
    /\ ctor_outcome = "none"
    /\ cfg = [n_components |-> None, tol |-> 0, copy |-> TRUE, max_iter |-> 1,
              noise_variance_init |-> NviNone, svd_method |-> "randomized",
              random_state |-> 0]
    /\ attrs = {}
    /\ mean_ = <<>> /\ components_ = <<>> /\ noise_variance_ = <<>>
    /\ loglike_ = <<>> /\ precision_ = <<>>
    /\ fitpc = "idle"
    /\ X_caller = <<>> /\ X = <<>>
    /\ n_components = 0 /\ llconst = 0 /\ var = <<>> /\ psi = <<>>
    /\ loglike = <<>> /\ old_ll = NInf /\ W = <<>>
    /\ it = 0 /\ broke = FALSE /\ rng = 0 /\ warned = FALSE
    /\ fit_outcome = "none"
    /\ svd_memo = {}
    /\ calls = [c \in Callers |-> IdleCall]
    /\ nfits = 0
    /\ pre = [attrs |-> {}, mean_ |-> <<>>, components_ |-> <<>>,
              noise_variance_ |-> <<>>, loglike_ |-> <<>>, X_caller |-> <<>>]
    /\ iter_log = <<>>
    /\ fit_log = <<>>

(***************************************************************************)
(* __init__                                                                *)
(***************************************************************************)
\* The svd_method check of __init__.
SvdMethodSupported(m) == m \in {"lapack", "randomized"}

Construct(c) ==
    /\ ~constructed
    /\ IF SvdMethodSupported(c.svd_method)
       THEN /\ constructed' = TRUE
            /\ ctor_outcome' = "returned"
            /\ cfg' = c
       ELSE /\ ctor_outcome' = "ValueError"
            /\ UNCHANGED <<constructed, cfg>>
    /\ UNCHANGED <<attrs, mean_, components_, noise_variance_, loglike_, precision_>>
    /\ UNCHANGED <<frame, svd_memo, calls, history>>


(***************************************************************************)
(* fit: the pieces of its body, as operators.                              *)
(***************************************************************************)
\* np.mean(X, axis=0)
ColMeans(M) == [f \in 1..NCols(M) |-> SumSeq(Column(M, f)) \div NRows(M)]

\* X -= self.mean_
Centered(M, mean) == [r \in 1..NRows(M) |-> [f \in 1..NCols(M) |-> M[r][f] - mean[f]]]

\* np.var(X, axis=0)
ColVars(M) ==
    LET m == ColMeans(M)
    IN [f \in 1..NCols(M) |->
            SumSeq([r \in 1..NRows(M) |-> FMul(M[r][f] - m[f], M[r][f] - m[f])])
                \div NRows(M)]

\* n_components = self.n_components; if n_components is None: n_components = n_features
LocalNComponents(c, n_features) ==
    IF c.n_components = None THEN n_features ELSE c.n_components

\* llconst = n_features * log(2. * np.pi) + n_components
LLConst(n_features, ncomp) == n_features * Log2Pi + ncomp * One

\* len(self.noise_variance_init) != n_features, when one is given
NviLengthWrong(c, n_features) ==
    c.noise_variance_init.given /\ Len(c.noise_variance_init.v) # n_features

\* A faulty InitialPsi: a fitted estimator starts from its stored noise variance.
InitialPsi_WarmStart(c, n_features) ==
    IF "noise_variance_" \in attrs THEN noise_variance_
    ELSE IF c.noise_variance_init.given THEN c.noise_variance_init.v
    ELSE [f \in 1..n_features |-> One]

\* psi = np.ones(n_features) or np.array(self.noise_variance_init)
InitialPsi(c, n_features) ==
    IF c.noise_variance_init.given
    THEN c.noise_variance_init.v
    ELSE [f \in 1..n_features |-> One]

\* sqrt_psi = np.sqrt(psi) + SMALL
SqrtPsi(p) == [f \in 1..Len(p) |-> FSqrt(p[f]) + SMALL]

\* X / (sqrt_psi * nsqrt)
Whitened(M, sqrt_psi, nsqrt) ==
    [r \in 1..NRows(M) |->
        [f \in 1..NCols(M) |-> FDiv(M[r][f], FMul(sqrt_psi[f], nsqrt))]]

\* X.flat
Flat(M) == [j \in 1..(NRows(M) * NCols(M)) |->
                M[((j - 1) \div NCols(M)) + 1][((j - 1) % NCols(M)) + 1]]

\* my_svd of the 'lapack' branch, on the result d of linalg.svd(X, full_matrices=False)
MySvdLapack(d, ncomp) ==
    [s |-> Take(d.s, ncomp), V |-> Take(d.V, ncomp),
     unexp_var |-> FDotSelf(Drop(d.s, ncomp))]

\* my_svd of the 'randomized' branch, on the result d of randomized_svd(X, n_components, ...)
MySvdRandomized(d, M) ==
    [s |-> d.s, V |-> d.V, unexp_var |-> FDotSelf(Flat(M)) - FDotSelf(d.s)]

\* s **= 2
Squared(s) == [j \in 1..Len(s) |-> FMul(s[j], s[j])]

\* W = np.sqrt(np.maximum(s - 1., 0.))[:, np.newaxis] * V;  W *= sqrt_psi
Loadings(s2, V, sqrt_psi) ==
    [j \in 1..Len(s2) |->
        [f \in 1..Len(sqrt_psi) |->
            FMul(FMul(FSqrt(Max(s2[j] - One, 0)), V[j][f]), sqrt_psi[f])]]

\* ll = llconst + np.sum(np.log(s)); ll += unexp_var + np.sum(np.log(psi));
\* ll *= -n_samples / 2.
LogLike(lc, s2, unexp_var, p, n_samples) ==
    EScaleNegHalf(
        EAdd(EAdd(Fin(lc), ESumSeq([j \in 1..Len(s2) |-> FLog(s2[j])])),
             EAdd(Fin(unexp_var), ESumSeq([f \in 1..Len(p) |-> FLog(p[f])]))),
        n_samples)

\* (ll - old_ll) < self.tol
StopTest(ll, old, tol) == ELt(ESub(ll, old), tol)

\* A faulty LoopElseRuns: the warning is tied to the iteration budget being
\* used up, whether or not the last iteration left the loop by break.
LoopElseRuns_BudgetUsed(brk, n, max_iter) == n >= max_iter

\* The else clause of the for loop runs when the loop was not left by break.
LoopElseRuns(brk, n, max_iter) == ~brk

\* random_state = check_random_state(self.random_state), in fit: an integer seed
\* gives a generator seeded anew, whatever generator r an earlier fit left.
SeededRng(c, r) == c.random_state

\* psi = np.maximum(var - np.sum(W ** 2, axis=0), SMALL)
UpdatedPsi(v, Wm) ==
    [f \in 1..Len(v) |->
        Max(v[f] - SumSeq([j \in 1..Len(Wm) |-> FMul(Wm[j][f], Wm[j][f])]), SMALL)]


(***************************************************************************)
(* transform, get_covariance, score: the pieces of their bodies.           *)
(***************************************************************************)
\* The determinant of a matrix of at most two rows.
Det(A) ==
    IF Len(A) = 1 THEN A[1][1]
    ELSE FMul(A[1][1], A[2][2]) - FMul(A[1][2], A[2][1])

\* linalg.inv of a matrix of at most two rows; it raises LinAlgError on a
\* singular matrix.
Invertible(A) == Det(A) # 0
Inv(A) ==
    IF Len(A) = 1 THEN << <<FDiv(One, A[1][1])>> >>
    ELSE LET d == Det(A)
         IN << <<FDiv(A[2][2], d), FDiv(0 - A[1][2], d)>>,
               <<FDiv(0 - A[2][1], d), FDiv(A[1][1], d)>> >>

\* np.dot(A, B) / fast_dot(A, B)
MatMul(A, B) ==
    [i \in 1..NRows(A) |->
        [j \in 1..NCols(B) |-> SumSeq([l \in 1..NRows(B) |-> FMul(A[i][l], B[l][j])])]]

\* A.T
Transpose(A) == [j \in 1..NCols(A) |-> [i \in 1..NRows(A) |-> A[i][j]]]

\* np.eye(n)
Eye(n) == [i \in 1..n |-> [j \in 1..n |-> IF i = j THEN One ELSE 0]]

MatAdd(A, B) == [i \in 1..NRows(A) |-> [j \in 1..NCols(A) |-> A[i][j] + B[i][j]]]

\* Wpsi = self.components_ / self.noise_variance_
WPsi(Wm, p) == [j \in 1..NRows(Wm) |-> [f \in 1..NCols(Wm) |-> FDiv(Wm[j][f], p[f])]]

\* The matrix transform inverts: Ih + np.dot(Wpsi, self.components_.T)
TransformKernel(Wm, p) == MatAdd(Eye(Len(Wm)), MatMul(WPsi(Wm, p), Transpose(Wm)))

\* transform(X) on the model m
TransformResult(m, Xq) ==
    LET Xt == Centered(Xq, m.mean_)
        Wp == WPsi(m.components_, m.noise_variance_)
        A == TransformKernel(m.components_, m.noise_variance_)
    IN IF Invertible(A)
       THEN [ok |-> TRUE, v |-> MatMul(MatMul(Xt, Transpose(Wp)), Inv(A))]
       ELSE [ok |-> FALSE, v |-> <<>>]

\* cov.flat[::step] += d, on the flattened matrix
StridedAdd(flat, step, d) ==
    [q \in 1..Len(flat) |->
        IF (q - 1) % step = 0 THEN flat[q] + d[((q - 1) \div step) + 1] ELSE flat[q]]

\* The matrix of n columns whose .flat is flat.
Reshape(flat, n) == [i \in 1..(Len(flat) \div n) |-> [j \in 1..n |-> flat[(i - 1) * n + j]]]

\* A faulty DiagStep: the stride is the row length.
DiagStep_RowLength(cov) == Len(cov)

\* The step of the strided update of get_covariance: len(cov) + 1.
DiagStep(cov) == Len(cov) + 1

\* get_covariance() on the model m: a new matrix np.dot(W.T, W), then the
\* in-place update of its .flat.
GetCovariance(m) ==
    LET cov == MatMul(Transpose(m.components_), m.components_)
    IN Reshape(StridedAdd(Flat(cov), DiagStep(cov), m.noise_variance_), NCols(cov))

\* fast_logdet(A): the log of the determinant, -inf when it is not positive.
FastLogdet(A) == IF Det(A) > 0 THEN FLog(Det(A)) ELSE NInf

\* Lines 288-289 of score: the per-row log-likelihood from Xr, the precision
\* matrix P read from self and the local cov.
ScoreRows(Xr, P, cov) ==
    LET XP == MatMul(Xr, P)
        quad(r) == SumSeq([f \in 1..NCols(Xr) |-> FMul(Xr[r][f], XP[r][f])])
        const == EAdd(FastLogdet(cov), Fin(NCols(Xr) * Log2Pi))
    IN [r \in 1..NRows(Xr) |->
            ESub(EScaleNegHalf(Fin(quad(r)), 1), ENeg(EScaleNegHalf(const, 1)))]

\* score(X) on the model m, run alone.
ScoreResult(m, Xq) ==
    LET cov == GetCovariance(m)
    IN IF Invertible(cov)
       THEN [ok |-> TRUE, v |-> ScoreRows(Centered(Xq, m.mean_), Inv(cov), cov)]
       ELSE [ok |-> FALSE, v |-> <<>>]

\* A faulty PsiAfterIteration: psi is updated before the stop test.
PsiAfterIteration_Always(stop, p, v, Wm) == UpdatedPsi(v, Wm)

\* psi as one pass of the loop leaves it: the update is skipped by break.
PsiAfterIteration(stop, p, v, Wm) == IF stop THEN p ELSE UpdatedPsi(v, Wm)

(***************************************************************************)
(* The SVD library.                                                        *)
(***************************************************************************)
\* The arguments that decide the library's result: linalg.svd(X) depends on X,
\* randomized_svd(X, n_components, random_state) also on the rank and on the
\* state of the random generator.
SvdKey(method, M, ncomp, r) ==
    IF method = "lapack" THEN <<"lapack", M, 0, 0>> ELSE <<"randomized", M, ncomp, r>>

\* What the library may return for these arguments.
SvdAnswers(key) ==
    IF \E e \in svd_memo : e[1] = key
    THEN {e[2] : e \in {e \in svd_memo : e[1] = key}}
    ELSE SvdCandidates

\* randomized_svd returns the leading n_components values and vectors.
RandomizedSvd(d, ncomp) == [s |-> Take(d.s, ncomp), V |-> Take(d.V, ncomp)]

(***************************************************************************)
(* fit                                                                     *)
(***************************************************************************)
\* The fitted attributes and the caller's array, as fit is entered.
Snapshot(x) ==
    [attrs |-> attrs, mean_ |-> mean_, components_ |-> components_,
     noise_variance_ |-> noise_variance_, loglike_ |-> loglike_, X_caller |-> x]

\* Lines 150-195: validation, centering, the constants, the initial psi, the
\* choice of my_svd.  The ValueError of a noise_variance_init of the wrong length
\* is raised after self.mean_ is assigned and X is centered (in place, when
\* copy=False the caller's array).
\* The caller: it makes at most MaxFits fit calls, the later ones with a matrix
\* equal to the first call's, and none while a score call is between its two
\* steps.  Callers of the inference operations have their results by then.
FitBegin(x) ==
    /\ constructed
    /\ fitpc = "idle"
    /\ nfits < MaxFits
    /\ nfits > 0 => x = pre.X_caller
    /\ \A c \in Callers : calls[c].pc # "score_mid"
    /\ LET n_features == NCols(x)
           mean == ColMeans(x)
           Xc == Centered(x, mean)
           ncomp == LocalNComponents(cfg, n_features)
       IN /\ mean_' = mean
          /\ attrs' = attrs \cup {"mean_"}
          /\ X' = Xc
          /\ X_caller' = IF cfg.copy THEN x ELSE Xc
          /\ n_components' = ncomp
          /\ llconst' = LLConst(n_features, ncomp)
          /\ var' = ColVars(Xc)
          /\ IF NviLengthWrong(cfg, n_features) \/ ~SvdMethodSupported(cfg.svd_method)
             THEN /\ fit_outcome' = "ValueError"
                  /\ fitpc' = "idle"
                  /\ UNCHANGED <<psi, rng>>
             ELSE /\ fit_outcome' = "running"
                  /\ fitpc' = "loop"
                  /\ psi' = InitialPsi(cfg, n_features)
                  /\ rng' = IF cfg.svd_method = "randomized" THEN SeededRng(cfg, rng) ELSE rng
    /\ loglike' = <<>>
    /\ old_ll' = NInf
    /\ W' = <<>>
    /\ it' = 0
    /\ broke' = FALSE
    /\ warned' = FALSE
    /\ nfits' = nfits + 1
    /\ pre' = Snapshot(x)
    /\ iter_log' = <<>>
    /\ calls' = [c \in Callers |-> IdleCall]
    /\ UNCHANGED <<constructed, ctor_outcome, cfg, components_, noise_variance_,
                   loglike_, precision_, svd_memo, fit_log>>

\* Lines 197-216: one pass of the for loop.
EMIteration ==
    /\ fitpc = "loop"
    /\ ~broke
    /\ it < cfg.max_iter
    /\ LET n_samples == NRows(X)
           nsqrt == FSqrt(n_samples * One)
           sqrt_psi == SqrtPsi(psi)
           M == Whitened(X, sqrt_psi, nsqrt)
           key == SvdKey(cfg.svd_method, M, n_components, rng)
       IN \E d \in SvdAnswers(key) :
            LET r == IF cfg.svd_method = "lapack"
                     THEN MySvdLapack(d, n_components)
                     ELSE MySvdRandomized(RandomizedSvd(d, n_components), M)
                s2 == Squared(r.s)
                Wn == Loadings(s2, r.V, sqrt_psi)
                ll == LogLike(llconst, s2, r.unexp_var, psi, n_samples)
                stop == StopTest(ll, old_ll, cfg.tol)
            IN /\ svd_memo' = svd_memo \cup {<<key, d>>}
               /\ rng' = IF cfg.svd_method = "randomized" THEN rng + 1 ELSE rng
               /\ W' = Wn
               /\ loglike' = Append(loglike, ll)
               /\ it' = it + 1
               /\ iter_log' = Append(iter_log, [psi |-> psi, W |-> Wn, ll |-> ll,
                                                stop |-> stop])
               /\ broke' = stop
               /\ old_ll' = IF stop THEN old_ll ELSE ll
               /\ psi' = PsiAfterIteration(stop, psi, var, Wn)
    /\ UNCHANGED <<estimator, fitpc, X_caller, X, n_components, llconst, var,
                   warned, fit_outcome, calls, nfits, pre, fit_log>>

\* The fitted model of the estimator.
Model ==
    [mean_ |-> mean_, components_ |-> components_,
     noise_variance_ |-> noise_variance_, loglike_ |-> loglike_]

\* Lines 217-226: the loop's else clause (the warning, when the loop was not
\* left by break), the assignment of the fitted attributes, return self.
FitReturn ==
    /\ fitpc = "loop"
    /\ broke \/ it >= cfg.max_iter
    /\ warned' = LoopElseRuns(broke, it, cfg.max_iter)
    /\ components_' = W
    /\ noise_variance_' = psi
    /\ loglike_' = loglike
    /\ attrs' = attrs \cup {"components_", "noise_variance_", "loglike_"}
    /\ fit_outcome' = "returned"
    /\ fitpc' = "idle"
    /\ fit_log' = Append(fit_log,
                         [x |-> pre.X_caller, mean_ |-> mean_, components_ |-> W,
                          noise_variance_ |-> psi, loglike_ |-> loglike,
                          warned |-> LoopElseRuns(broke, it, cfg.max_iter)])
    /\ UNCHANGED <<constructed, ctor_outcome, cfg, mean_, precision_, X_caller, X,
                   n_components, llconst, var, psi, loglike, old_ll, W, it, broke,
                   rng, svd_memo, calls, nfits, pre, iter_log>>

(***************************************************************************)
(* transform, get_covariance, score, called by several callers on the      *)
(* fitted estimator while no fit runs.  An operation on an estimator       *)
(* without the fitted attributes raises AttributeError and changes nothing. *)
(***************************************************************************)
IsFitted ==
    /\ fitpc = "idle"
    /\ {"mean_", "components_", "noise_variance_"} \subseteq attrs

\* Lines 244-254.
TransformCall(c, x) ==
    /\ IsFitted
    /\ calls[c].pc # "score_mid"
    /\ calls' = [calls EXCEPT ![c] =
                    [pc |-> "done", op |-> "transform", X |-> x, cov |-> <<>>,
                     res |-> TransformResult(Model, x), overlapped |-> FALSE]]
    /\ UNCHANGED <<estimator, frame, svd_memo, history>>

\* A faulty GetCovarianceCall: the diagonal update is made on the estimator's
\* noise_variance_ array, not on the fresh matrix alone.
GetCovarianceCall_InPlace(c) ==
    /\ IsFitted
    /\ calls[c].pc # "score_mid"
    /\ calls' = [calls EXCEPT ![c] =
                    [pc |-> "done", op |-> "get_covariance", X |-> <<>>, cov |-> <<>>,
                     res |-> [ok |-> TRUE, v |-> GetCovariance(Model)],
                     overlapped |-> FALSE]]
    /\ noise_variance_' = [f \in 1..Len(noise_variance_) |->
                              GetCovariance(Model)[f][f]]
    /\ UNCHANGED <<constructed, ctor_outcome, cfg, attrs, mean_, components_,
                   loglike_, precision_, frame, svd_memo, history>>

\* Lines 266-268.
GetCovarianceCall(c) ==
    /\ IsFitted
    /\ calls[c].pc # "score_mid"
    /\ calls' = [calls EXCEPT ![c] =
                    [pc |-> "done", op |-> "get_covariance", X |-> <<>>, cov |-> <<>>,
                     res |-> [ok |-> TRUE, v |-> GetCovariance(Model)],
                     overlapped |-> FALSE]]
    /\ UNCHANGED <<estimator, frame, svd_memo, history>>

\* A faulty ScorePrecision: the stored matrix depends on the rows of the call's X.
ScorePrecision_PerCall(cov, x) ==
    [i \in 1..Len(cov) |-> [j \in 1..Len(cov) |-> Inv(cov)[i][j] * NRows(x)]]

\* self.precision_ = linalg.inv(cov): the value score stores on self.
ScorePrecision(cov, x) == Inv(cov)

\* Lines 283-287: up to the assignment of self.precision_.  linalg.inv raises
\* on a singular cov, and score with it, before the assignment.
ScoreBegin(c, x) ==
    /\ IsFitted
    /\ calls[c].pc # "score_mid"
    /\ LET cov == GetCovariance(Model)
       IN IF Invertible(cov)
          THEN /\ precision_' = ScorePrecision(cov, x)
               /\ attrs' = attrs \cup {"precision_"}
               /\ calls' = [d \in Callers |->
                               IF d = c
                               THEN [pc |-> "score_mid", op |-> "score", X |-> x,
                                     cov |-> cov, res |-> NoResult, overlapped |-> FALSE]
                               ELSE IF calls[d].pc = "score_mid"
                               THEN [calls[d] EXCEPT !.overlapped = TRUE]
                               ELSE calls[d]]
          ELSE /\ calls' = [calls EXCEPT ![c] =
                               [pc |-> "done", op |-> "score", X |-> x,
                                cov |-> cov, res |-> [ok |-> FALSE, v |-> <<>>],
                                overlapped |-> FALSE]]
               /\ UNCHANGED <<precision_, attrs>>
    /\ UNCHANGED <<constructed, ctor_outcome, cfg, mean_, components_,
                   noise_variance_, loglike_, frame, svd_memo, history>>

\* Lines 288-290: from the read of self.precision_ to the return.
ScoreEnd(c) ==
    /\ calls[c].pc = "score_mid"
    /\ calls' = [calls EXCEPT ![c].pc = "done",
                              ![c].res = [ok |-> TRUE,
                                          v |-> ScoreRows(Centered(calls[c].X, mean_),
                                                          precision_, calls[c].cov)]]
    /\ UNCHANGED <<estimator, frame, svd_memo, history>>

(***************************************************************************)
(* Specifications.  Spec is the estimator's construction and fitting under *)
(* every configuration of ConfigSet.  SpecInfer adds the inference         *)
(* operations, called by the callers in any interleaving, on estimators    *)
(* constructed with the configurations of InferConfigSet.                  *)
(***************************************************************************)
Next ==
    \/ \E c \in ConfigSet : Construct(c)
    \/ \E x \in DataSet : FitBegin(x)
    \/ EMIteration
    \/ FitReturn

Spec == Init /\ [][Next]_vars

InferConfigSet ==
    {c \in ConfigSet : /\ c.tol = DefaultTol /\ c.copy = DefaultCopy
                       /\ c.noise_variance_init = DefaultNvi
                       /\ c.n_components \in {None, 1}
                       /\ c.max_iter <= 2}

NextInfer ==
    \/ \E c \in InferConfigSet : Construct(c)
    \/ \E x \in DataSet : FitBegin(x)
    \/ EMIteration
    \/ FitReturn
    \/ \E c \in Callers, x \in QuerySet : TransformCall(c, x)
    \/ \E c \in Callers : GetCovarianceCall(c)
    \/ \E c \in Callers, x \in QuerySet : ScoreBegin(c, x)
    \/ \E c \in Callers : ScoreEnd(c)

SpecInfer == Init /\ [][NextInfer]_vars


(***************************************************************************)
(* Properties.                                                             *)
(***************************************************************************)
FitReturned == fit_outcome = "returned"
\* The stop test succeeded in some iteration of the last fit.
TestSucceeded == \E j \in 1..Len(iter_log) : iter_log[j].stop
\* All max_iter iterations were performed and the stop test succeeded in none.
Exhausted == Len(iter_log) = cfg.max_iter /\ ~TestSucceeded
\* ll - old_ll as iteration j of the last fit computed it.
Improvement(j) ==
    ESub(iter_log[j].ll, IF j = 1 THEN NInf ELSE iter_log[j - 1].ll)

\* C1: a fit emits the non-convergence warning exactly when all max_iter
\* iterations were performed and the stop test succeeded in none of them, never
\* when the test succeeded (the last allowed iteration included); an exhausted
\* fit raises no error, stores components_, noise_variance_ and loglike_ (with
\* max_iter entries) and returns.
C1_WarningIffExhausted ==
    /\ FitReturned =>
          /\ warned <=> Exhausted
          /\ TestSucceeded => ~warned
          /\ Exhausted =>
                /\ {"components_", "noise_variance_", "loglike_"} \subseteq attrs
                /\ components_ = iter_log[cfg.max_iter].W
                /\ Len(noise_variance_) = NCols(X)
                /\ Len(loglike_) = cfg.max_iter
    /\ Len(iter_log) >= 1 => fit_outcome \in {"running", "returned"}
    /\ (fitpc = "loop" /\ Exhausted) => ENABLED FitReturn

\* C1, witness: a fit of at least two iterations returned exhausted, with the
\* warning and a stored model.
C1_Witness ==
    /\ FitReturned /\ warned /\ cfg.max_iter >= 2
    /\ Len(loglike_) = cfg.max_iter /\ Len(components_) >= 1

\* C2: a fit that raises for an invalid configuration has set or changed no
\* fitted attribute, has not modified the caller's matrix and has run no EM
\* iteration; a constructor that raises leaves no estimator.
C2_FailsBeforeAnyComputation ==
    /\ fit_outcome = "ValueError" =>
          /\ attrs = pre.attrs
          /\ mean_ = pre.mean_
          /\ components_ = pre.components_
          /\ noise_variance_ = pre.noise_variance_
          /\ loglike_ = pre.loglike_
          /\ X_caller = pre.X_caller
          /\ Len(iter_log) = 0
    /\ ctor_outcome = "ValueError" => ~constructed /\ attrs = {}

AtLeastFloor(p) == \A f \in 1..Len(p) : p[f] >= SMALL

\* C3: every entry of the noise variance vector is at least SMALL in every
\* state of a fit: the initial vector, the vector each EM iteration uses, the
\* vector stored as noise_variance_.
C3_NoiseVarianceFloor ==
    /\ fitpc = "loop" => AtLeastFloor(psi)
    /\ \A j \in 1..Len(iter_log) : AtLeastFloor(iter_log[j].psi)
    /\ "noise_variance_" \in attrs => AtLeastFloor(noise_variance_)

\* C4: in every fit the rank used by the EM loop is n_features when
\* n_components is None, and the rank used for the decomposition, for the
\* log-likelihood constant and for the rows of components_ never exceeds
\* n_features.
C4_RankAtMostFeatures ==
    fit_outcome \in {"running", "returned"} =>
        /\ cfg.n_components = None => n_components = NCols(X)
        /\ n_components <= NCols(X)
        /\ llconst <= LLConst(NCols(X), NCols(X))
        /\ Len(W) <= NCols(X)

\* C5: two fits on identical data with the estimator's configuration give
\* identical fitted models (mean_, components_, noise_variance_, loglike_ and so
\* the number of iterations, and the same warning), with 'lapack' and with
\* 'randomized' and its integer seed, the second fit run on the same estimator.
C5_FitDeterministic ==
    \A i, j \in 1..Len(fit_log) :
        fit_log[i].x = fit_log[j].x => fit_log[i] = fit_log[j]

\* C5, witness: the estimator was fitted twice with 'randomized', each fit of
\* at least two iterations.
C5_Witness ==
    /\ Len(fit_log) >= 2
    /\ cfg.svd_method = "randomized"
    /\ Len(fit_log[1].loglike_) >= 2

\* C6: a transform, get_covariance or score step on the fitted estimator leaves
\* mean_, components_, noise_variance_ and loglike_ unchanged; precision_ is the
\* only attribute such a step writes, and the step that writes it is score's.
C6_InferenceFrame ==
    [][(IsFitted /\ fitpc' = "idle" /\ nfits' = nfits) =>
          /\ Model' = Model
          /\ attrs' \subseteq attrs \cup {"precision_"}
          /\ (precision_' # precision_ \/ attrs' # attrs) =>
                \E c \in Callers : /\ calls[c].pc # "score_mid"
                                   /\ calls'[c].pc = "score_mid"
                                   /\ calls'[c].op = "score"]_vars

\* C6, witness: transform, get_covariance and score have all been called on the
\* fitted estimator, which still holds the model its last fit stored.
C6_Witness ==
    /\ IsFitted /\ "precision_" \in attrs
    /\ calls["a"].pc = "done" /\ calls["a"].op = "transform"
    /\ calls["b"].pc = "done" /\ calls["b"].op = "get_covariance"
    /\ Model.components_ = fit_log[Len(fit_log)].components_

\* What a finished call returns when it runs alone on the model.
ResultAlone(call) ==
    IF call.op = "score" THEN ScoreResult(Model, call.X)
    ELSE IF call.op = "transform" THEN TransformResult(Model, call.X)
    ELSE [ok |-> TRUE, v |-> GetCovariance(Model)]

\* C7: with inference operations called concurrently by several callers on the
\* same fitted model and no fit running, every call returns, under every
\* interleaving of the steps, the result it returns when run alone.
C7_ConcurrentInference ==
    \A c \in Callers : calls[c].pc = "done" => calls[c].res = ResultAlone(calls[c])

\* C7, witness: a score call has returned a result although another caller
\* assigned precision_ between its own assignment and its read.
C7_Witness ==
    \E c \in Callers :
        /\ calls[c].pc = "done" /\ calls[c].op = "score"
        /\ calls[c].res.ok /\ calls[c].overlapped

\* C8: get_covariance returns the n_features x n_features matrix W^T W +
\* diag(psi): symmetric, entry (i, i) the sum over k of W[k,i]^2 plus
\* noise_variance_[i], entry (i, j), i # j, the sum over k of W[k,i]*W[k,j].
C8_CovarianceEntries ==
    \A c \in Callers :
        (calls[c].pc = "done" /\ calls[c].op = "get_covariance") =>
            LET M == calls[c].res.v
                n == Len(mean_)
            IN /\ Len(M) = n
               /\ \A i \in 1..n :
                     /\ Len(M[i]) = n
                     /\ \A j \in 1..n :
                           /\ M[i][j] =
                                SumSeq([k \in 1..Len(components_) |->
                                          FMul(components_[k][i], components_[k][j])])
                                + (IF i = j THEN noise_variance_[i] ELSE 0)
                           /\ M[i][j] = M[j][i]

\* C8, witness: get_covariance has returned a matrix with a non-zero
\* off-diagonal entry.
C8_Witness ==
    \E c \in Callers :
        /\ calls[c].pc = "done" /\ calls[c].op = "get_covariance"
        /\ calls[c].res.v[1][2] # 0

\* a >= t on IEEE floats, t finite: false for nan.
EGe(a, t) == \/ a.k = "pinf"
             \/ a.k = "fin" /\ a.v >= t

\* C9: the loop stops at the first iteration whose log-likelihood minus the
\* previous one is < tol; the first iteration never satisfies the test, a fit
\* with max_iter >= 2 performs at least two iterations, and in loglike_ every
\* consecutive difference except possibly the last is >= tol.
C9_StopRule ==
    FitReturned =>
        LET n == Len(iter_log)
        IN /\ \A j \in 1..n : iter_log[j].stop <=> ELt(Improvement(j), cfg.tol)
           /\ \A j \in 1..(n - 1) : ~iter_log[j].stop
           /\ ~iter_log[1].stop
           /\ cfg.max_iter >= 2 => n >= 2
           /\ \A j \in 2..(n - 1) :
                 EGe(ESub(loglike_[j], loglike_[j - 1]), cfg.tol)

\* C10: after a fit, components_ and the last entry of loglike_ are those the
\* last iteration performed computed, loglike_ has one entry per iteration, and
\* noise_variance_ is the psi that iteration used when the fit converged, the
\* psi updated from that components_ when the fit is exhausted.
C10_StoredModel ==
    FitReturned =>
        LET n == Len(iter_log)
        IN /\ n >= 1 /\ n = it
           /\ Len(loglike_) = n
           /\ \A j \in 1..n : loglike_[j] = iter_log[j].ll
           /\ components_ = iter_log[n].W
           /\ IF iter_log[n].stop
              THEN noise_variance_ = iter_log[n].psi
              ELSE /\ n = cfg.max_iter
                   /\ noise_variance_ = UpdatedPsi(var, components_)

\* C10, witness: a fit converged, and the update of psi it skipped would have
\* changed psi.
C10_Witness ==
    /\ FitReturned /\ TestSucceeded
    /\ noise_variance_ # UpdatedPsi(var, components_)

=============================================================================
